---- MODULE Spec2Model ----
(***************************************************************************)
(* Model of the tool-calling agent loop of modal_app:                      *)
(*   functions.py  run_function, the tool executors, the `functions` list  *)
(*   agent.py      get_or_create_thread, process_agent_message             *)
(* The model provider (threads, messages, runs), the Google APIs and the   *)
(* SQLite tables agent_threads / google_tokens are the environment.        *)
(* The thread-record delete and the ApproachRouter have no source file    *)
(* here; they follow the written specification of the service.            *)
(***************************************************************************)
EXTENDS Integers, Sequences, FiniteSets, TLC

(* ------------------------------ bounds -------------------------------- *)
\* requests (calls of process_agent_message) made in one behaviour
MaxReq == 2
\* tool calls one requires_action run carries, one request at a time
MaxCalls == 2
\* tool calls one requires_action run carries, two requests in parallel
ConcCalls == 1
\* tool calls a run carries when it requires action again after a submission
MoreCalls == 1
\* requests made in one behaviour by the two parallel callers together
ConcReq == 2
\* calls of get_or_create_thread made in one behaviour by two parallel callers
GocCalls == 4
\* administrative deletes of the thread records in one behaviour
MaxDeletes == 1

\* messages a thread holds when process_agent_message lists it
MaxMsgs == 2

(* ------------------------- functions.py ------------------------------- *)
\* `functions`: the catalog, in order; name and schema-required arguments
functions ==
  << [name |-> "schedule_meeting",
      required |-> <<"meeting_title", "start_time", "end_time">>],
     [name |-> "send_email",
      required |-> <<"recipient", "subject", "body">>],
     [name |-> "read_emails",   required |-> << >>],
     [name |-> "read_calendar", required |-> << >>],
     [name |-> "edit_calendar", required |-> <<"event_id", "updates">>] >>

CatalogNames == { functions[i].name : i \in 1..Len(functions) }

\* names a run may ask for that no branch of run_function knows
UnknownNames == {"get_weather", "delete_email"}

ToolNames == CatalogNames \cup UnknownNames

\* the keys an argument bag may hold (an argument bag is the set of its keys)
ArgKeys == {"meeting_title", "start_time", "end_time", "attendees", "location",
            "recipient", "subject", "body", "max_results", "event_id", "updates"}

\* the keys run_function reads with args[...] (KeyError when absent), in the
\* order it reads them; keys read with args.get(...) never fail
Subscripted(name) ==
  CASE name = "schedule_meeting" -> <<"meeting_title", "start_time", "end_time">>
    [] name = "send_email"       -> <<"recipient", "subject", "body">>
    [] name = "edit_calendar"    -> <<"event_id", "updates">>
    [] OTHER                     -> << >>

\* the first subscripted key the bag lacks, "" when it has them all
FirstMissing(keys, args) ==
  LET miss == { i \in 1..Len(keys) : keys[i] \notin args }
  IN  IF miss = {} THEN ""
      ELSE keys[CHOOSE i \in miss : \A j \in miss : i <= j]

Returned(v, called, api) ==
  [kind |-> "return", value |-> v, exc |-> "", called |-> called, api |-> api]

Raised(e, called, api) ==
  [kind |-> "raise", value |-> "", exc |-> e, called |-> called, api |-> api]

\* get_google_credentials: the latest google_tokens row, or an exception
get_google_credentials(creds) ==
  IF creds THEN "Credentials" ELSE "NoStoredCredentials"

\* an executor that goes to the Google API without loading credentials
ExecutorNoCredentials(name, creds, apiOk) ==
  IF apiOk THEN Returned(name, TRUE, TRUE)
  ELSE Raised("ApiError", TRUE, TRUE)

\* an executor (schedule_meeting, send_email, read_emails, read_calendar,
\* edit_calendar): credentials first, then the Google API call, whose result
\* (apiOk) is the environment's
Executor(name, creds, apiOk) ==
  IF get_google_credentials(creds) = "NoStoredCredentials"
  THEN Raised("NoStoredCredentials", TRUE, FALSE)
  ELSE IF apiOk THEN Returned(name, TRUE, TRUE)
       ELSE Raised("ApiError", TRUE, TRUE)

\* run_function whose last branch is an else: an unknown name runs edit_calendar
run_function_fallthrough(name, args, creds, apiOk) ==
  LET n == IF name \in CatalogNames THEN name ELSE "edit_calendar"
  IN  IF FirstMissing(Subscripted(n), args) # ""
      THEN Raised("KeyError", FALSE, FALSE)
      ELSE Executor(n, creds, apiOk)

\* run_function whose read_calendar branch calls read_emails
run_function_misrouted(name, args, creds, apiOk) ==
  IF name \in {"schedule_meeting", "send_email", "read_emails",
               "read_calendar", "edit_calendar"}
  THEN IF FirstMissing(Subscripted(name), args) # ""
       THEN Raised("KeyError", FALSE, FALSE)
       ELSE Executor(IF name = "read_calendar" THEN "read_emails" ELSE name,
                     creds, apiOk)
  ELSE Returned("None", FALSE, FALSE)

\* run_function: the first branch whose name matches evaluates its arguments
\* (KeyError before the executor is entered) and calls the executor; no branch
\* matches: None
run_function(name, args, creds, apiOk) ==
  IF name \in {"schedule_meeting", "send_email", "read_emails",
               "read_calendar", "edit_calendar"}
  THEN IF FirstMissing(Subscripted(name), args) # ""
       THEN Raised("KeyError", FALSE, FALSE)
       ELSE Executor(name, creds, apiOk)
  ELSE Returned("None", FALSE, FALSE)

\* json.dumps of a tool result: None becomes null, a payload its JSON text
json_dumps(v) == IF v = "None" THEN "null" ELSE v

(* ------------------------------ state --------------------------------- *)
VARIABLES
  rows,         \* table agent_threads, in rowid order: [thread_id, updated_at]
  clock,        \* the store's timestamp source (resolution: one tick)
  tieFirst,     \* how the build orders rows of equal updated_at: first rowid or last
  hasCreds,     \* table google_tokens holds a row
  threads,      \* threads the provider has created (their ids are 1..threads)
  msgs,         \* provider: thread id -> its messages, oldest first
  nextReq,      \* id of the next call of process_agent_message
  deletes,      \* thread-record deletes made so far
  callBound,    \* longest tool-call list a run may carry in this behaviour
  reqBound,     \* calls of process_agent_message made in this behaviour
  pc,           \* per caller: where its process_agent_message call stands
  req,          \* per caller: id of the call it is in
  thread_id,    \* per caller: local thread_id
  seenRows,     \* per caller: how many rows the table held at its SELECT
  assistant,    \* per caller: tool names of the assistant it created
  run,          \* per caller: local run (status, tool calls, submissions made)
  idx,          \* per caller: position of the for loop over the tool calls
  tool_outputs, \* per caller: local tool_outputs
  subs,         \* per caller: what it submitted, [calls, outputs] per submission
  invoked,      \* per caller: ids of the tool calls handed to run_function
  ret,          \* per caller: string returned by process_agent_message
  retMsg,       \* per caller: the thread message whose text was returned
  exc,          \* per caller: exception that left process_agent_message
  gocLog,       \* what get_or_create_thread returned since the last delete: the
                \* thread id, and how many rows its SELECT saw (0: it created)
  rf_in,        \* a direct call run_function(name, args)
  rf_out,       \* its outcome
  deleted,      \* thread ids whose record a delete has removed
  polls,        \* per caller: polls that found its run still in progress, mod 2
  router,       \* the one ApproachRouter resolution (POST /ask) of a behaviour
  active        \* provider: threads holding a run that has not ended

vars == << rows, clock, tieFirst, hasCreds, threads, msgs, nextReq, deletes,
           callBound, reqBound, pc, req, thread_id, seenRows, assistant, run, idx,
           tool_outputs, subs, invoked, ret, retMsg, exc, gocLog, rf_in, rf_out,
           deleted, polls, router, active >>

storeVars == << rows, clock, tieFirst, hasCreds, deletes, callBound, reqBound >>
rfVars    == << rf_in, rf_out >>
auxVars   == << deleted, polls, router, active >>

Procs == {"a", "b"}

NoRun == [status |-> "none", tool_calls |-> << >>, submitted |-> 0]
NoMsg == [role |-> "none", text |-> "", req |-> 0]
NoExc == [exc |-> "", at |-> 0]
NoCall == [name |-> "", args |-> {}]
Pending == [kind |-> "pending", value |-> "", exc |-> "", called |-> FALSE, api |-> FALSE]

(* --------------------------- ApproachRouter --------------------------- *)
\* approaches the model may name in its decision call: the two strategies
\* and values that are neither
Approaches == {"retrieval", "generated_query", "full_scan", ""}

\* query texts the model may author: one that runs, one with a syntax error,
\* one that is not read-only
QueryTexts == {"SELECT name FROM items", "SELEC name FROM items", "DELETE FROM items"}

\* the decision calls of the provider's reply: none, or the mandatory one
DecisionReplies ==
  { << >> } \cup { << [approach |-> a, query_text |-> q] >> :
                    a \in Approaches, q \in QueryTexts }

\* what the nearest-neighbour search may find: its top-k matches
MatchLists == { << >>, << "doc1" >>, << "doc1", "doc2" >> }

\* what a query that runs may select: its raw rows
RowLists == { << >>, << "row1" >> }

\* read-only execution of a query text: rows, or the text of the failure
ExecuteQuery(q, found) ==
  CASE q = "SELECT name FROM items" -> [ok |-> TRUE,  content |-> found, error |-> ""]
    [] q = "SELEC name FROM items"  -> [ok |-> FALSE, content |-> << >>,
                                        error |-> "syntax error"]
    [] OTHER                        -> [ok |-> FALSE, content |-> << >>,
                                        error |-> "disallowed statement"]

NoToolOutput == [kind |-> "none", content |-> << >>, error |-> ""]
NoResult == [kind |-> "none", answer |-> ""]

\* no resolution in progress
NoAsk == [pc |-> "idle", decisions |-> << >>, matches |-> << >>, found |-> << >>,
          approach |-> "", strategy |-> "none", tool_output |-> NoToolOutput,
          final_request |-> << >>, result |-> NoResult, raised |-> FALSE]

\* a resolution about to start, with everything its collaborators will say
AskInputs ==
  { [NoAsk EXCEPT !.pc = "decide", !.decisions = d, !.matches = m, !.found = r] :
      d \in DecisionReplies, m \in MatchLists, r \in RowLists }

\* statuses create_and_poll / submit_tool_outputs_and_poll return with
PollStatuses == {"completed", "requires_action", "failed", "expired",
                 "cancelled", "incomplete"}

\* the invocations a run draws its tool calls from: one per way run_function
\* can go (unknown name, missing key, executor reached with or without keys)
TurnCalls ==
  { [name |-> "get_weather",      args |-> {}],
    [name |-> "schedule_meeting", args |-> {"meeting_title"}],
    [name |-> "send_email",       args |-> {"recipient", "subject", "body"}],
    [name |-> "read_emails",      args |-> {}] }

\* tool-call lists of length 0..n, ids first+1 .. first+n
RECURSIVE CallLists(_, _)
CallLists(n, first) ==
  IF n = 0 THEN { << >> }
  ELSE LET shorter == CallLists(n - 1, first)
       IN  shorter \cup
           { Append(l, [id |-> first + n, name |-> c.name, args |-> c.args]) :
               l \in { s \in shorter : Len(s) = n - 1 }, c \in TurnCalls }

\* texts the model may give as its answer: any text at all, among them the
\* empty one and the very texts process_agent_message returns on its own
AnswerTexts == {"", "answer", "No messages found in thread.", "Run status: failed"}

\* messages a thread may hold: the users' and the assistant's
ThreadMessages ==
  { [role |-> "user", text |-> "hi", req |-> 0] } \cup
  { [role |-> "assistant", text |-> t, req |-> 0] : t \in AnswerTexts }

\* what messages.list(order="asc") may return: lists of length 0..n
RECURSIVE MessageLists(_)
MessageLists(n) ==
  IF n = 0 THEN { << >> }
  ELSE LET shorter == MessageLists(n - 1)
       IN  shorter \cup
           { Append(l, m) : l \in { s \in shorter : Len(s) = n - 1 },
                            m \in ThreadMessages }

\* statuses a run that does not require action ends its poll with
EndStatuses == {"completed", "failed", "expired", "cancelled", "incomplete"}

\* f"Run status: {run.status}"
RunStatusText(s) == "Run status: " \o s

\* SELECT thread_id FROM agent_threads ORDER BY updated_at DESC LIMIT 1
\* with the store picking the first row of the order
LatestThreadOldest(rs, first) == rs[1].thread_id

\* SELECT thread_id FROM agent_threads ORDER BY updated_at DESC LIMIT 1
LatestThread(rs, first) ==
  LET top == { i \in 1..Len(rs) : \A j \in 1..Len(rs) :
                                    rs[j].updated_at <= rs[i].updated_at }
      pick == IF first THEN CHOOSE i \in top : \A j \in top : i <= j
              ELSE CHOOSE i \in top : \A j \in top : j <= i
  IN  rs[pick].thread_id

\* the tools process_agent_message gives the assistant: functions[0..4]
AssistantTools == [i \in 1..5 |-> functions[i].name]

(* ------------------------------- Init --------------------------------- *)
InitCommon ==
  /\ rows = << >> /\ clock = 0 /\ tieFirst \in BOOLEAN /\ hasCreds \in BOOLEAN
  /\ threads = 0 /\ msgs = << >> /\ nextReq = 1 /\ deletes = 0
  /\ pc = [p \in Procs |-> "idle"]
  /\ req = [p \in Procs |-> 0]
  /\ thread_id = [p \in Procs |-> 0]
  /\ seenRows = [p \in Procs |-> 0]
  /\ assistant = [p \in Procs |-> << >>]
  /\ run = [p \in Procs |-> NoRun]
  /\ idx = [p \in Procs |-> 1]
  /\ tool_outputs = [p \in Procs |-> << >>]
  /\ subs = [p \in Procs |-> << >>]
  /\ invoked = [p \in Procs |-> << >>]
  /\ ret = [p \in Procs |-> ""]
  /\ retMsg = [p \in Procs |-> NoMsg]
  /\ exc = [p \in Procs |-> NoExc]
  /\ gocLog = << >>
  /\ deleted = {}
  /\ polls = [p \in Procs |-> 0]
  /\ active = {}

\* two callers of process_agent_message in parallel
Init ==
  /\ InitCommon /\ callBound = ConcCalls /\ reqBound = ConcReq
  /\ rf_in = NoCall /\ rf_out = Pending /\ router = NoAsk

\* one caller, one call after the other, and the administrative delete; the
\* store never holds two rows then, so the order of a tie is left fixed
InitSeq ==
  /\ InitCommon /\ ~tieFirst /\ callBound = MaxCalls /\ reqBound = MaxReq
  /\ rf_in = NoCall /\ rf_out = Pending /\ router = NoAsk

\* two callers of get_or_create_thread in parallel
InitGoc ==
  /\ InitCommon /\ callBound = 0 /\ reqBound = GocCalls
  /\ rf_in = NoCall /\ rf_out = Pending /\ router = NoAsk

\* run_function called directly on any name and argument bag
InitRun ==
  /\ InitCommon /\ callBound = 0 /\ reqBound = 0
  /\ rf_in \in [name : ToolNames, args : SUBSET ArgKeys]
  /\ rf_out = Pending /\ router = NoAsk

\* the tail of process_agent_message on its own: two calls, each on its own
\* thread, stand after their poll with any end status and any message list
InitExtract ==
  /\ rows = << >> /\ clock = 0 /\ tieFirst = FALSE /\ hasCreds = TRUE
  /\ threads = 2 /\ nextReq = 1 /\ deletes = 0
  /\ callBound = 0 /\ reqBound = 0
  /\ msgs \in { << d1, d2 >> : d1 \in MessageLists(MaxMsgs),
                                d2 \in MessageLists(MaxMsgs) }
  /\ pc = [p \in Procs |-> "extract"]
  /\ req = [p \in Procs |-> 0]
  /\ thread_id = [p \in Procs |-> IF p = "a" THEN 1 ELSE 2]
  /\ seenRows = [p \in Procs |-> 0]
  /\ assistant = [p \in Procs |-> AssistantTools]
  /\ run \in [Procs -> { [status |-> s, tool_calls |-> << >>, submitted |-> 0] :
                          s \in EndStatuses }]
  /\ idx = [p \in Procs |-> 1]
  /\ tool_outputs = [p \in Procs |-> << >>]
  /\ subs = [p \in Procs |-> << >>]
  /\ invoked = [p \in Procs |-> << >>]
  /\ ret = [p \in Procs |-> ""]
  /\ retMsg = [p \in Procs |-> NoMsg]
  /\ exc = [p \in Procs |-> NoExc]
  /\ gocLog = << >>
  /\ deleted = {}
  /\ polls = [p \in Procs |-> 0]
  /\ active = {}
  /\ rf_in = NoCall /\ rf_out = Pending /\ router = NoAsk

\* one ApproachRouter resolution on any reply of the provider and any state
\* of the data source
InitRouter ==
  /\ InitCommon /\ callBound = 0 /\ reqBound = 0
  /\ rf_in = NoCall /\ rf_out = Pending
  /\ router \in AskInputs

(* ------------------------------ actions ------------------------------- *)
\* a caller enters process_agent_message(user_message)
NewRequest(p) ==
  /\ pc[p] \in {"idle", "done", "raised"}
  /\ nextReq <= reqBound
  /\ pc' = [pc EXCEPT ![p] = "select"]
  /\ req' = [req EXCEPT ![p] = nextReq]
  /\ nextReq' = nextReq + 1
  /\ thread_id' = [thread_id EXCEPT ![p] = 0]
  /\ seenRows' = [seenRows EXCEPT ![p] = 0]
  /\ assistant' = [assistant EXCEPT ![p] = << >>]
  /\ run' = [run EXCEPT ![p] = NoRun]
  /\ idx' = [idx EXCEPT ![p] = 1]
  /\ tool_outputs' = [tool_outputs EXCEPT ![p] = << >>]
  /\ subs' = [subs EXCEPT ![p] = << >>]
  /\ invoked' = [invoked EXCEPT ![p] = << >>]
  /\ ret' = [ret EXCEPT ![p] = ""]
  /\ retMsg' = [retMsg EXCEPT ![p] = NoMsg]
  /\ exc' = [exc EXCEPT ![p] = NoExc]
  /\ UNCHANGED << storeVars, threads, msgs, gocLog, rfVars, auxVars >>

\* get_or_create_thread whose SELECT result is ignored: always creates
GocSelectAlwaysCreate(p) ==
  /\ pc[p] = "select"
  /\ seenRows' = [seenRows EXCEPT ![p] = 0]
  /\ pc' = [pc EXCEPT ![p] = "create"]
  /\ UNCHANGED << storeVars, threads, msgs, nextReq, req, thread_id, assistant,
                  run, idx, tool_outputs, subs, invoked, ret, retMsg, exc,
                  gocLog, rfVars, auxVars >>

\* get_or_create_thread refreshing updated_at of the row it returns
GocSelectTouch(p) ==
  /\ pc[p] = "select"
  /\ IF rows # << >>
     THEN /\ thread_id' = [thread_id EXCEPT ![p] = LatestThread(rows, tieFirst)]
          /\ seenRows' = [seenRows EXCEPT ![p] = Len(rows)]
          /\ gocLog' = Append(gocLog, [id |-> LatestThread(rows, tieFirst),
                                        seen |-> Len(rows)])
          /\ rows' = [i \in 1..Len(rows) |->
                        IF rows[i].thread_id = LatestThread(rows, tieFirst)
                        THEN [rows[i] EXCEPT !.updated_at = clock + 1]
                        ELSE rows[i]]
          /\ clock' = clock + 1
          /\ pc' = [pc EXCEPT ![p] = "assistant"]
     ELSE /\ seenRows' = [seenRows EXCEPT ![p] = 0]
          /\ pc' = [pc EXCEPT ![p] = "create"]
          /\ UNCHANGED << thread_id, gocLog, rows, clock >>
  /\ UNCHANGED << tieFirst, hasCreds, deletes, callBound, reqBound,
                  threads, msgs, nextReq, req, assistant, run, idx,
                  tool_outputs, subs, invoked, ret, retMsg, exc, rfVars, auxVars >>

\* get_or_create_thread, the SELECT and fetchone: a row gives the thread id
\* and the function returns; no row sends it on to create one
GocSelect(p) ==
  /\ pc[p] = "select"
  /\ IF rows # << >>
     THEN /\ thread_id' = [thread_id EXCEPT ![p] = LatestThread(rows, tieFirst)]
          /\ seenRows' = [seenRows EXCEPT ![p] = Len(rows)]
          /\ gocLog' = Append(gocLog, [id |-> LatestThread(rows, tieFirst),
                                        seen |-> Len(rows)])
          /\ pc' = [pc EXCEPT ![p] = "assistant"]
     ELSE /\ seenRows' = [seenRows EXCEPT ![p] = 0]
          /\ pc' = [pc EXCEPT ![p] = "create"]
          /\ UNCHANGED << thread_id, gocLog >>
  /\ UNCHANGED << storeVars, threads, msgs, nextReq, req, assistant, run, idx,
                  tool_outputs, subs, invoked, ret, retMsg, exc, rfVars, auxVars >>

\* get_or_create_thread keeping the thread it created in a module global:
\* only the first creation asks the provider for a thread
GocCreateReuse(p) ==
  /\ pc[p] = "create"
  /\ threads' = IF threads = 0 THEN 1 ELSE threads
  /\ msgs' = IF threads = 0 THEN Append(msgs, << >>) ELSE msgs
  /\ thread_id' = [thread_id EXCEPT ![p] = IF threads = 0 THEN 1 ELSE threads]
  /\ pc' = [pc EXCEPT ![p] = "insert"]
  /\ UNCHANGED << storeVars, nextReq, req, seenRows, assistant, run, idx,
                  tool_outputs, subs, invoked, ret, retMsg, exc, gocLog, rfVars,
                  auxVars >>

\* get_or_create_thread, openai.beta.threads.create(): a fresh, empty thread
GocCreate(p) ==
  /\ pc[p] = "create"
  /\ threads' = threads + 1
  /\ msgs' = Append(msgs, << >>)
  /\ thread_id' = [thread_id EXCEPT ![p] = threads + 1]
  /\ pc' = [pc EXCEPT ![p] = "insert"]
  /\ UNCHANGED << storeVars, nextReq, req, seenRows, assistant, run, idx,
                  tool_outputs, subs, invoked, ret, retMsg, exc, gocLog, rfVars, auxVars >>

\* get_or_create_thread, INSERT and commit. The INSERT names thread_id only:
\* updated_at is the column default of the table (created outside these
\* files), taken to be the store's current time, which may or may not have
\* moved on since the previous insert
GocInsert(p) ==
  /\ pc[p] = "insert"
  /\ \E adv \in {0, 1} :
       /\ clock' = clock + adv
       /\ rows' = Append(rows, [thread_id |-> thread_id[p], updated_at |-> clock + adv])
  /\ gocLog' = Append(gocLog, [id |-> thread_id[p], seen |-> 0])
  /\ pc' = [pc EXCEPT ![p] = "assistant"]
  /\ UNCHANGED << tieFirst, hasCreds, deletes, callBound, reqBound, threads, msgs,
                  nextReq, req, thread_id, seenRows, assistant, run, idx, tool_outputs, subs,
                  invoked, ret, retMsg, exc, rfVars, auxVars >>

\* client.beta.assistants.create with the five tools
CreateAssistant(p) ==
  /\ pc[p] = "assistant"
  /\ assistant' = [assistant EXCEPT ![p] = AssistantTools]
  /\ pc' = [pc EXCEPT ![p] = "append"]
  /\ UNCHANGED << storeVars, threads, msgs, nextReq, req, thread_id, seenRows, run,
                  idx, tool_outputs, subs, invoked, ret, retMsg, exc, gocLog, rfVars, auxVars >>

\* client.beta.threads.messages.create(role="user", content=user_message)
\* the provider refuses with a BadRequestError, which nothing catches, when
\* the thread holds a run that has not ended
AppendMessage(p) ==
  /\ pc[p] = "append"
  /\ IF thread_id[p] \in active
     THEN /\ exc' = [exc EXCEPT ![p] = [exc |-> "BadRequest", at |-> 0]]
          /\ pc' = [pc EXCEPT ![p] = "raised"]
          /\ UNCHANGED msgs
     ELSE /\ msgs' = [msgs EXCEPT ![thread_id[p]] =
                        Append(@, [role |-> "user", text |-> "hi", req |-> req[p]])]
          /\ pc' = [pc EXCEPT ![p] = "run"]
          /\ UNCHANGED exc
  /\ UNCHANGED << storeVars, threads, nextReq, req, thread_id, seenRows, assistant,
                  run, idx, tool_outputs, subs, invoked, ret, retMsg, gocLog,
                  rfVars, auxVars >>

\* client.beta.threads.runs.create_and_poll, the creation of the run: the
\* provider refuses (BadRequestError, uncaught) when the thread holds a run
\* that has not ended; else the thread holds this run from now on
CreateRun(p) ==
  /\ pc[p] = "run"
  /\ IF thread_id[p] \in active
     THEN /\ exc' = [exc EXCEPT ![p] = [exc |-> "BadRequest", at |-> 0]]
          /\ pc' = [pc EXCEPT ![p] = "raised"]
          /\ UNCHANGED active
     ELSE /\ active' = active \cup {thread_id[p]}
          /\ pc' = [pc EXCEPT ![p] = "polling"]
          /\ UNCHANGED exc
  /\ UNCHANGED << storeVars, threads, msgs, nextReq, req, thread_id, seenRows,
                  assistant, run, idx, tool_outputs, subs, invoked, ret, retMsg,
                  gocLog, rfVars, deleted, polls, router >>

\* the provider ends (expires) a run that no call is waiting for or working
\* on: one left requiring action by a call that raised or returned
RunExpires ==
  \E t \in active :
    /\ \A p \in Procs : ~(thread_id[p] = t /\ pc[p] \in {"polling", "tools", "poll"})
    /\ active' = active \ {t}
    /\ UNCHANGED << storeVars, threads, msgs, nextReq, pc, req, thread_id, seenRows,
                    assistant, run, idx, tool_outputs, subs, invoked, ret, retMsg,
                    exc, gocLog, rfVars, deleted, polls, router >>

\* create_and_poll or submit_tool_outputs_and_poll finds the run still queued
\* or in progress: it sleeps and polls again; the calls pass no timeout and
\* count no polls
PollWait(p) ==
  /\ pc[p] \in {"polling", "poll"}
  /\ polls' = [polls EXCEPT ![p] = 1 - @]
  /\ UNCHANGED << storeVars, threads, msgs, nextReq, pc, req, thread_id, seenRows,
                  assistant, run, idx, tool_outputs, subs, invoked, ret, retMsg,
                  exc, gocLog, rfVars, deleted, router, active >>

\* what a poll leaves behind: a completed run has put the assistant's answer
\* on the thread; a run that ended without completing may have put a message
\* there before it ended (wrote); a run that requires action carries its
\* tool calls and stays on the thread, any other has ended
Polled(p, status, calls, nsub, wrote) ==
  /\ run' = [run EXCEPT ![p] = [status |-> status,
                                 tool_calls |-> IF status = "requires_action"
                                                THEN calls ELSE << >>,
                                 submitted |-> nsub]]
  /\ msgs' = IF status = "completed" \/ wrote
             THEN [msgs EXCEPT ![thread_id[p]] =
                     Append(@, [role |-> "assistant", text |-> "answer", req |-> req[p]])]
             ELSE msgs
  /\ active' = IF status = "requires_action" THEN active \cup {thread_id[p]}
               ELSE active \ {thread_id[p]}

\* client.beta.threads.runs.create_and_poll comes back with the run as its
\* poll found it
CreateAndPoll(p) ==
  /\ pc[p] = "polling"
  /\ \E status \in PollStatuses : \E calls \in CallLists(callBound, 0) :
     \E wrote \in BOOLEAN :
       /\ (status # "requires_action" => calls = << >>)
       /\ (status = "completed" => wrote) /\ (status = "requires_action" => ~wrote)
       /\ Polled(p, status, calls, 0, wrote)
       /\ pc' = [pc EXCEPT ![p] = IF status = "requires_action" THEN "tools" ELSE "extract"]
  /\ idx' = [idx EXCEPT ![p] = 1]
  /\ tool_outputs' = [tool_outputs EXCEPT ![p] = << >>]
  /\ UNCHANGED << storeVars, threads, nextReq, req, thread_id, seenRows, assistant,
                  subs, invoked, ret, retMsg, exc, gocLog, rfVars, deleted, polls,
                  router >>

\* the for loop appending only the results that are not None
ToolStepSkipNone(p) ==
  /\ pc[p] = "tools"
  /\ idx[p] <= Len(run[p].tool_calls)
  /\ \E apiOk \in BOOLEAN :
       LET tool == run[p].tool_calls[idx[p]]
           result == run_function(tool.name, tool.args, hasCreds, apiOk)
       IN  IF result.kind = "raise"
           THEN /\ exc' = [exc EXCEPT ![p] = [exc |-> result.exc, at |-> tool.id]]
                /\ pc' = [pc EXCEPT ![p] = "raised"]
                /\ UNCHANGED tool_outputs
           ELSE /\ tool_outputs' = [tool_outputs EXCEPT ![p] =
                      IF result.value = "None" THEN @
                      ELSE Append(@, [tool_call_id |-> tool.id,
                                      output |-> json_dumps(result.value)])]
                /\ UNCHANGED << exc, pc >>
  /\ invoked' = [invoked EXCEPT ![p] = Append(@, run[p].tool_calls[idx[p]].id)]
  /\ idx' = [idx EXCEPT ![p] = @ + 1]
  /\ UNCHANGED << storeVars, threads, msgs, nextReq, req, thread_id, seenRows,
                  assistant, run, subs, ret, retMsg, gocLog, rfVars, auxVars >>

\* the for loop stamping every output with the id of the first tool call
ToolStepFirstId(p) ==
  /\ pc[p] = "tools"
  /\ idx[p] <= Len(run[p].tool_calls)
  /\ \E apiOk \in BOOLEAN :
       LET tool == run[p].tool_calls[idx[p]]
           result == run_function(tool.name, tool.args, hasCreds, apiOk)
       IN  IF result.kind = "raise"
           THEN /\ exc' = [exc EXCEPT ![p] = [exc |-> result.exc, at |-> tool.id]]
                /\ pc' = [pc EXCEPT ![p] = "raised"]
                /\ UNCHANGED tool_outputs
           ELSE /\ tool_outputs' = [tool_outputs EXCEPT ![p] =
                      Append(@, [tool_call_id |-> run[p].tool_calls[1].id,
                                 output |-> json_dumps(result.value)])]
                /\ UNCHANGED << exc, pc >>
  /\ invoked' = [invoked EXCEPT ![p] = Append(@, run[p].tool_calls[idx[p]].id)]
  /\ idx' = [idx EXCEPT ![p] = @ + 1]
  /\ UNCHANGED << storeVars, threads, msgs, nextReq, req, thread_id, seenRows,
                  assistant, run, subs, ret, retMsg, gocLog, rfVars, auxVars >>

\* the for loop giving a tool call that raised one more try
ToolStepRetry(p) ==
  /\ pc[p] = "tools"
  /\ idx[p] <= Len(run[p].tool_calls)
  /\ \E apiOk \in BOOLEAN :
       LET tool == run[p].tool_calls[idx[p]]
           result == run_function(tool.name, tool.args, hasCreds, apiOk)
           tried == \E k \in 1..Len(invoked[p]) : invoked[p][k] = tool.id
       IN  IF result.kind = "raise"
           THEN IF tried
                THEN /\ exc' = [exc EXCEPT ![p] = [exc |-> result.exc, at |-> tool.id]]
                     /\ pc' = [pc EXCEPT ![p] = "raised"]
                     /\ idx' = [idx EXCEPT ![p] = @ + 1]
                     /\ UNCHANGED tool_outputs
                ELSE UNCHANGED << exc, pc, idx, tool_outputs >>
           ELSE /\ tool_outputs' = [tool_outputs EXCEPT ![p] =
                      Append(@, [tool_call_id |-> tool.id,
                                 output |-> json_dumps(result.value)])]
                /\ idx' = [idx EXCEPT ![p] = @ + 1]
                /\ UNCHANGED << exc, pc >>
  /\ invoked' = [invoked EXCEPT ![p] = Append(@, run[p].tool_calls[idx[p]].id)]
  /\ UNCHANGED << storeVars, threads, msgs, nextReq, req, thread_id, seenRows,
                  assistant, run, subs, ret, retMsg, gocLog, rfVars, auxVars >>

\* one iteration of `for tool in ...tool_calls`: run_function(name, args) and
\* the append of its json.dumps; an exception of run_function is not caught
\* and leaves process_agent_message
ToolStep(p) ==
  /\ pc[p] = "tools"
  /\ idx[p] <= Len(run[p].tool_calls)
  /\ \E apiOk \in BOOLEAN :
       LET tool == run[p].tool_calls[idx[p]]
           result == run_function(tool.name, tool.args, hasCreds, apiOk)
       IN  IF result.kind = "raise"
           THEN /\ exc' = [exc EXCEPT ![p] = [exc |-> result.exc, at |-> tool.id]]
                /\ pc' = [pc EXCEPT ![p] = "raised"]
                /\ UNCHANGED tool_outputs
           ELSE /\ tool_outputs' = [tool_outputs EXCEPT ![p] =
                      Append(@, [tool_call_id |-> tool.id,
                                 output |-> json_dumps(result.value)])]
                /\ UNCHANGED << exc, pc >>
  /\ invoked' = [invoked EXCEPT ![p] = Append(@, run[p].tool_calls[idx[p]].id)]
  /\ idx' = [idx EXCEPT ![p] = @ + 1]
  /\ UNCHANGED << storeVars, threads, msgs, nextReq, req, thread_id, seenRows,
                  assistant, run, subs, ret, retMsg, gocLog, rfVars, auxVars >>

\* the submission sitting inside the for loop: it may go out as soon as one
\* tool call has been handled
SubmitEarly(p) ==
  /\ pc[p] = "tools"
  /\ idx[p] > 1 \/ run[p].tool_calls = << >>
  /\ IF tool_outputs[p] # << >>
     THEN /\ subs' = [subs EXCEPT ![p] =
                        Append(@, [calls |-> run[p].tool_calls,
                                   outputs |-> tool_outputs[p]])]
          /\ pc' = [pc EXCEPT ![p] = "poll"]
          /\ UNCHANGED ret
     ELSE /\ ret' = [ret EXCEPT ![p] = "No tool outputs generated."]
          /\ pc' = [pc EXCEPT ![p] = "done"]
          /\ UNCHANGED subs
  /\ UNCHANGED << storeVars, threads, msgs, nextReq, req, thread_id, seenRows,
                  assistant, run, idx, tool_outputs, invoked, retMsg, exc, gocLog,
                  rfVars, auxVars >>

\* the submission made whatever tool_outputs holds, the empty list too
SubmitAlways(p) ==
  /\ pc[p] = "tools"
  /\ idx[p] > Len(run[p].tool_calls)
  /\ subs' = [subs EXCEPT ![p] =
                Append(@, [calls |-> run[p].tool_calls,
                           outputs |-> tool_outputs[p]])]
  /\ pc' = [pc EXCEPT ![p] = "poll"]
  /\ UNCHANGED << storeVars, threads, msgs, nextReq, req, thread_id, seenRows,
                  assistant, run, idx, tool_outputs, invoked, ret, retMsg, exc,
                  gocLog, rfVars, auxVars >>

\* after the loop: `if tool_outputs:` submit_tool_outputs_and_poll sends the
\* outputs to the provider and starts waiting for the run; else return
Submit(p) ==
  /\ pc[p] = "tools"
  /\ idx[p] > Len(run[p].tool_calls)
  /\ IF tool_outputs[p] # << >>
     THEN /\ subs' = [subs EXCEPT ![p] =
                        Append(@, [calls |-> run[p].tool_calls,
                                   outputs |-> tool_outputs[p]])]
          /\ pc' = [pc EXCEPT ![p] = "poll"]
          /\ UNCHANGED ret
     ELSE /\ ret' = [ret EXCEPT ![p] = "No tool outputs generated."]
          /\ pc' = [pc EXCEPT ![p] = "done"]
          /\ UNCHANGED subs
  /\ UNCHANGED << storeVars, threads, msgs, nextReq, req, thread_id, seenRows,
                  assistant, run, idx, tool_outputs, invoked, retMsg, exc, gocLog,
                  rfVars, auxVars >>

\* submit_tool_outputs_and_poll comes back with the run as its poll found it
SubmitPolled(p) ==
  /\ pc[p] = "poll"
  /\ \E status \in PollStatuses :
     \E calls \in CallLists(MoreCalls, Len(run[p].tool_calls)) :
     \E wrote \in BOOLEAN :
       /\ (status # "requires_action" => calls = << >>)
       /\ (status = "completed" => wrote) /\ (status = "requires_action" => ~wrote)
       /\ Polled(p, status, calls, run[p].submitted + 1, wrote)
  /\ pc' = [pc EXCEPT ![p] = "extract"]
  /\ UNCHANGED << storeVars, threads, nextReq, req, thread_id, seenRows, assistant,
                  idx, tool_outputs, subs, invoked, ret, retMsg, exc, gocLog,
                  rfVars, deleted, polls, router >>

\* the tail of process_agent_message written as a loop: a run that requires
\* action again goes back to the tool calls
ExtractLooping(p) ==
  /\ pc[p] = "extract"
  /\ IF run[p].status = "requires_action"
     THEN /\ pc' = [pc EXCEPT ![p] = "tools"]
          /\ idx' = [idx EXCEPT ![p] = 1]
          /\ tool_outputs' = [tool_outputs EXCEPT ![p] = << >>]
          /\ UNCHANGED << ret, retMsg >>
     ELSE /\ pc' = [pc EXCEPT ![p] = "done"]
          /\ ret' = [ret EXCEPT ![p] =
                IF run[p].status # "completed" THEN RunStatusText(run[p].status)
                ELSE msgs[thread_id[p]][Len(msgs[thread_id[p]])].text]
          /\ retMsg' = [retMsg EXCEPT ![p] =
                IF run[p].status # "completed" THEN NoMsg
                ELSE msgs[thread_id[p]][Len(msgs[thread_id[p]])]]
          /\ UNCHANGED << idx, tool_outputs >>
  /\ UNCHANGED << storeVars, threads, msgs, nextReq, req, thread_id, seenRows,
                  assistant, run, subs, invoked, exc, gocLog, rfVars, auxVars >>

\* the tail of process_agent_message raising on a run that did not complete
ExtractRaising(p) ==
  /\ pc[p] = "extract"
  /\ LET data == msgs[thread_id[p]]
     IN  IF run[p].status = "completed"
         THEN /\ pc' = [pc EXCEPT ![p] = "done"]
              /\ UNCHANGED exc
              /\ IF data # << >>
                 THEN /\ ret' = [ret EXCEPT ![p] = data[Len(data)].text]
                      /\ retMsg' = [retMsg EXCEPT ![p] = data[Len(data)]]
                 ELSE /\ ret' = [ret EXCEPT ![p] = "No messages found in thread."]
                      /\ UNCHANGED retMsg
         ELSE /\ pc' = [pc EXCEPT ![p] = "raised"]
              /\ exc' = [exc EXCEPT ![p] = [exc |-> "RunFailed", at |-> 0]]
              /\ UNCHANGED << ret, retMsg >>
  /\ UNCHANGED << storeVars, threads, msgs, nextReq, req, thread_id, seenRows,
                  assistant, run, idx, tool_outputs, subs, invoked, gocLog,
                  rfVars, auxVars >>

\* the tail of process_agent_message returning "" for an empty message list
ExtractEmptyString(p) ==
  /\ pc[p] = "extract"
  /\ LET data == msgs[thread_id[p]]
     IN  IF run[p].status = "completed"
         THEN IF data # << >>
              THEN /\ ret' = [ret EXCEPT ![p] = data[Len(data)].text]
                   /\ retMsg' = [retMsg EXCEPT ![p] = data[Len(data)]]
              ELSE /\ ret' = [ret EXCEPT ![p] = ""]
                   /\ UNCHANGED retMsg
         ELSE /\ ret' = [ret EXCEPT ![p] = RunStatusText(run[p].status)]
              /\ UNCHANGED retMsg
  /\ pc' = [pc EXCEPT ![p] = "done"]
  /\ UNCHANGED << storeVars, threads, msgs, nextReq, req, thread_id, seenRows,
                  assistant, run, idx, tool_outputs, subs, invoked, exc, gocLog,
                  rfVars, auxVars >>

\* the tail of process_agent_message polling on while the run requires action
ExtractWaiting(p) ==
  /\ pc[p] = "extract"
  /\ IF run[p].status = "requires_action"
     THEN /\ polls' = [polls EXCEPT ![p] = 1 - @]
          /\ UNCHANGED << pc, ret, retMsg >>
     ELSE /\ pc' = [pc EXCEPT ![p] = "done"]
          /\ ret' = [ret EXCEPT ![p] =
                IF run[p].status # "completed" THEN RunStatusText(run[p].status)
                ELSE msgs[thread_id[p]][Len(msgs[thread_id[p]])].text]
          /\ retMsg' = [retMsg EXCEPT ![p] =
                IF run[p].status # "completed" THEN NoMsg
                ELSE msgs[thread_id[p]][Len(msgs[thread_id[p]])]]
          /\ UNCHANGED polls
  /\ UNCHANGED << storeVars, threads, msgs, nextReq, req, thread_id, seenRows,
                  assistant, run, idx, tool_outputs, subs, invoked, exc, gocLog,
                  rfVars, deleted, router, active >>

\* the tail of process_agent_message: `if run.status == "completed"` lists the
\* thread's messages in ascending order and returns the text of the last one,
\* whoever wrote it; any other status is reported as "Run status: ..."
Extract(p) ==
  /\ pc[p] = "extract"
  /\ LET data == msgs[thread_id[p]]
     IN  IF run[p].status = "completed"
         THEN IF data # << >>
              THEN /\ ret' = [ret EXCEPT ![p] = data[Len(data)].text]
                   /\ retMsg' = [retMsg EXCEPT ![p] = data[Len(data)]]
              ELSE /\ ret' = [ret EXCEPT ![p] = "No messages found in thread."]
                   /\ UNCHANGED retMsg
         ELSE /\ ret' = [ret EXCEPT ![p] = RunStatusText(run[p].status)]
              /\ UNCHANGED retMsg
  /\ pc' = [pc EXCEPT ![p] = "done"]
  /\ UNCHANGED << storeVars, threads, msgs, nextReq, req, thread_id, seenRows,
                  assistant, run, idx, tool_outputs, subs, invoked, exc, gocLog,
                  rfVars, auxVars >>

\* DELETE /agent/thread: every row of agent_threads goes; the provider's
\* threads stay
DeleteThread ==
  /\ deletes < MaxDeletes
  /\ rows' = << >>
  /\ deletes' = deletes + 1
  /\ gocLog' = << >>
  /\ deleted' = deleted \cup { rows[i].thread_id : i \in 1..Len(rows) }
  /\ UNCHANGED << clock, tieFirst, hasCreds, callBound, reqBound, threads, msgs,
                  nextReq, pc,
                  req, thread_id, seenRows, assistant, run, idx, tool_outputs, subs,
                  invoked, ret, retMsg, exc, rfVars, polls, router, active >>

\* get_or_create_thread returns thread_id to a caller that wanted only that
GocReturn(p) ==
  /\ pc[p] = "assistant"
  /\ pc' = [pc EXCEPT ![p] = "done"]
  /\ UNCHANGED << storeVars, threads, msgs, nextReq, req, thread_id, seenRows,
                  assistant, run, idx, tool_outputs, subs, invoked, ret, retMsg,
                  exc, gocLog, rfVars, auxVars >>

\* the router falling back to retrieval when no decision call came
RouterDecideDefault ==
  /\ router.pc = "decide"
  /\ router' = [router EXCEPT
        !.pc = "branch",
        !.approach = IF router.decisions = << >> THEN "retrieval"
                     ELSE router.decisions[1].approach]
  /\ UNCHANGED << storeVars, threads, msgs, nextReq, pc, req, thread_id, seenRows,
                  assistant, run, idx, tool_outputs, subs, invoked, ret, retMsg,
                  exc, gocLog, rfVars, deleted, polls, active >>

\* step 2: the decision call is read; none: "no decision produced"
RouterDecide ==
  /\ router.pc = "decide"
  /\ router' = IF router.decisions = << >>
               THEN [router EXCEPT
                       !.pc = "done",
                       !.result = [kind |-> "no decision produced", answer |-> ""]]
               ELSE [router EXCEPT
                       !.pc = "branch",
                       !.approach = router.decisions[1].approach]
  /\ UNCHANGED << storeVars, threads, msgs, nextReq, pc, req, thread_id, seenRows,
                  assistant, run, idx, tool_outputs, subs, invoked, ret, retMsg,
                  exc, gocLog, rfVars, deleted, polls, active >>

\* the router letting a query-execution error propagate
RouterBranchRaising ==
  /\ router.pc = "branch"
  /\ LET out == ExecuteQuery(router.decisions[1].query_text, router.found)
     IN  router' =
           CASE router.approach = "retrieval" ->
                  [router EXCEPT !.pc = "final", !.strategy = "retrieval",
                     !.tool_output = [kind |-> "matches", content |-> router.matches,
                                      error |-> ""]]
             [] router.approach = "generated_query" /\ out.ok ->
                  [router EXCEPT !.pc = "final", !.strategy = "generated_query",
                     !.tool_output = [kind |-> "rows", content |-> out.content,
                                      error |-> ""]]
             [] router.approach = "generated_query" /\ ~out.ok ->
                  [router EXCEPT !.pc = "done", !.strategy = "generated_query",
                     !.raised = TRUE]
             [] OTHER ->
                  [router EXCEPT !.pc = "done",
                     !.result = [kind |-> "unrecognized approach", answer |-> ""]]
  /\ UNCHANGED << storeVars, threads, msgs, nextReq, pc, req, thread_id, seenRows,
                  assistant, run, idx, tool_outputs, subs, invoked, ret, retMsg,
                  exc, gocLog, rfVars, deleted, polls, active >>

\* step 3: branch on the decided approach and execute its strategy; a query
\* that fails gives its failure text as the tool output; an approach that is
\* neither strategy gives "unrecognized approach"
RouterBranch ==
  /\ router.pc = "branch"
  /\ LET out == ExecuteQuery(router.decisions[1].query_text, router.found)
     IN  router' =
           CASE router.approach = "retrieval" ->
                  [router EXCEPT !.pc = "final", !.strategy = "retrieval",
                     !.tool_output = [kind |-> "matches", content |-> router.matches,
                                      error |-> ""]]
             [] router.approach = "generated_query" /\ out.ok ->
                  [router EXCEPT !.pc = "final", !.strategy = "generated_query",
                     !.tool_output = [kind |-> "rows", content |-> out.content,
                                      error |-> ""]]
             [] router.approach = "generated_query" /\ ~out.ok ->
                  [router EXCEPT !.pc = "final", !.strategy = "generated_query",
                     !.tool_output = [kind |-> "error", content |-> << >>,
                                      error |-> out.error]]
             [] OTHER ->
                  [router EXCEPT !.pc = "done",
                     !.result = [kind |-> "unrecognized approach", answer |-> ""]]
  /\ UNCHANGED << storeVars, threads, msgs, nextReq, pc, req, thread_id, seenRows,
                  assistant, run, idx, tool_outputs, subs, invoked, ret, retMsg,
                  exc, gocLog, rfVars, deleted, polls, active >>

\* steps 3-4: the tool output goes to the model in the request for the final
\* answer, and the answer the model composes is returned
RouterFinal ==
  /\ router.pc = "final"
  /\ \E text \in {"answer", "the query failed"} :
       router' = [router EXCEPT
                    !.pc = "done",
                    !.final_request = << [role |-> "tool",
                                          content |-> router.tool_output] >>,
                    !.result = [kind |-> "answer", answer |-> text]]
  /\ UNCHANGED << storeVars, threads, msgs, nextReq, pc, req, thread_id, seenRows,
                  assistant, run, idx, tool_outputs, subs, invoked, ret, retMsg,
                  exc, gocLog, rfVars, deleted, polls, active >>

\* a direct call of run_function(name, args)
RunCall ==
  /\ rf_out = Pending
  /\ rf_in # NoCall
  /\ \E apiOk \in BOOLEAN :
       rf_out' = run_function(rf_in.name, rf_in.args, hasCreds, apiOk)
  /\ UNCHANGED << storeVars, threads, msgs, nextReq, pc, req, thread_id, seenRows,
                  assistant, run, idx, tool_outputs, subs, invoked, ret, retMsg,
                  exc, gocLog, rf_in, auxVars >>

(* --------------------------- specifications --------------------------- *)
Step(p) ==
  \/ NewRequest(p)
  \/ GocSelect(p)
  \/ GocCreate(p)
  \/ GocInsert(p)
  \/ CreateAssistant(p)
  \/ AppendMessage(p)
  \/ CreateRun(p)
  \/ CreateAndPoll(p)
  \/ ToolStep(p)
  \/ Submit(p)
  \/ SubmitPolled(p)
  \/ Extract(p)

Next == (\E p \in Procs : Step(p)) \/ RunExpires

NextSeq == Step("a") \/ DeleteThread \/ RunExpires

NextGoc ==
  \E p \in Procs :
    NewRequest(p) \/ GocSelect(p) \/ GocCreate(p) \/ GocInsert(p) \/ GocReturn(p)

NextRun == RunCall

\* two callers of process_agent_message in parallel
Spec == Init /\ [][Next]_vars

\* one caller, call after call, and the administrative delete
SpecSeq == InitSeq /\ [][NextSeq]_vars

\* two callers of get_or_create_thread in parallel, call after call
SpecGoc == InitGoc /\ [][NextGoc]_vars

\* run_function on its own
SpecRun == InitRun /\ [][NextRun]_vars

NextExtract == \E p \in Procs : Extract(p)

\* the tail of process_agent_message on any end status and message list
SpecExtract == InitExtract /\ [][NextExtract]_vars

CallerPoll == Step("a") \/ PollWait("a")

NextPoll == CallerPoll \/ RunExpires

\* one caller whose polls may find the run in progress any number of times;
\* the caller itself keeps running (weak fairness), the provider owes nothing
SpecPoll == Init /\ [][NextPoll]_vars /\ WF_vars(CallerPoll)

\* the same caller with a provider that ends every run by the first poll
SpecPrompt == Init /\ [][Step("a")]_vars /\ WF_vars(Step("a"))

NextRouter == RouterDecide \/ RouterBranch \/ RouterFinal

\* one ApproachRouter resolution
SpecRouter == InitRouter /\ [][NextRouter]_vars

(* ------------------------------ claims -------------------------------- *)
\* the arguments the catalog's schema of `name` marks required
SchemaRequired(name) ==
  UNION { { functions[i].required[k] : k \in 1..Len(functions[i].required) } :
          i \in { j \in 1..Len(functions) : functions[j].name = name } }

RfDone == rf_out # Pending

Max(S) == CHOOSE x \in S : \A y \in S : y <= x

\* C1 as stated: for a name outside the catalog run_function returns a
\* ToolNotFound failure result and does not raise, whatever the argument bag.
C1_ToolNotFoundResult ==
  (RfDone /\ rf_in.name \notin CatalogNames)
    => (rf_out.kind = "return" /\ rf_out.value = "ToolNotFound")

\* C1 as amended: for a name outside the catalog run_function returns None
\* (no failure descriptor), does not raise and enters no executor, whatever
\* the argument bag.
C1_UnknownNameReturnsNone ==
  (RfDone /\ rf_in.name \notin CatalogNames)
    => (/\ rf_out.kind = "return" /\ rf_out.value = "None"
        /\ ~rf_out.called /\ ~rf_out.api
        /\ json_dumps(rf_out.value) = "null")

C1_Witness ==
  /\ RfDone /\ rf_in.name = "get_weather"
  /\ rf_in.args = {"event_id", "updates"} /\ rf_out.value = "None"

\* C2: every submission of tool outputs has exactly as many entries as the
\* run that required action had tool calls (at least one), and a run with at
\* least one tool call never ends in "No tool outputs generated.".
C2_FanInParity ==
  \A p \in Procs :
    /\ \A k \in 1..Len(subs[p]) :
         /\ Len(subs[p][k].calls) >= 1
         /\ Len(subs[p][k].outputs) = Len(subs[p][k].calls)
    /\ (pc[p] = "done" /\ ret[p] = "No tool outputs generated.")
         => run[p].tool_calls = << >>

C2_Witness ==
  /\ Len(subs["a"]) = 1
  /\ Len(subs["a"][1].calls) = MaxCalls
  /\ subs["a"][1].outputs[1].output = "null"
  /\ subs["a"][1].outputs[MaxCalls].output # "null"

\* C3: with one caller at a time, between two deletes at most one thread is
\* created and at most one row is stored, every get_or_create_thread call
\* returns the same thread id, the one of the stored row; before any delete
\* that is exactly one thread and one row once a call has returned.
C3_CreateOnceThenReuse ==
  /\ threads <= deletes + 1
  /\ Len(rows) <= 1
  /\ \A i, j \in 1..Len(gocLog) : gocLog[i].id = gocLog[j].id
  /\ (gocLog # << >> /\ rows # << >>) => rows[1].thread_id = gocLog[1].id
  /\ (gocLog # << >> /\ deletes = 0) => (threads = 1 /\ Len(rows) = 1)

C3_Witness ==
  /\ deletes = 0 /\ Len(gocLog) = MaxReq /\ threads = 1
  /\ gocLog[1].seen = 0 /\ gocLog[MaxReq].seen = 1

\* C4 as stated: an exception raised by the external capability during a
\* tool call never leaves process_agent_message.
C4_CapabilityFailureCaught ==
  \A p \in Procs : ~(pc[p] = "raised" /\ exc[p].exc = "ApiError")

\* C5 as stated: run_function on a catalog tool whose argument bag lacks a
\* schema-required argument returns an InvalidArguments failure result,
\* without raising and without entering the executor.
C5_InvalidArgumentsResult ==
  (RfDone /\ rf_in.name \in CatalogNames
          /\ ~(SchemaRequired(rf_in.name) \subseteq rf_in.args))
    => (/\ rf_out.kind = "return" /\ rf_out.value = "InvalidArguments"
        /\ ~rf_out.called)

\* C6 as stated: a call of process_agent_message whose run required action
\* with several tool calls, one of them naming an unregistered tool, ends
\* only after every call was handed to run_function and an output for every
\* call was submitted.
C6_UnknownToolTurnCompletes ==
  \A p \in Procs :
    LET calls == IF subs[p] # << >> THEN subs[p][1].calls ELSE run[p].tool_calls
    IN  (/\ pc[p] \in {"done", "raised"}
         /\ Len(calls) >= 2
         /\ \E i \in 1..Len(calls) : calls[i].name \notin CatalogNames)
        => (/\ Len(invoked[p]) = Len(calls)
            /\ Len(subs[p]) >= 1
            /\ Len(subs[p][1].outputs) = Len(calls))

\* C7 as stated: a call that has submitted tool outputs goes on while the run
\* requires action again, so it ends only with the run in a terminal status.
C7_LoopsUntilTerminal ==
  \A p \in Procs :
    (pc[p] = "done" /\ run[p].submitted >= 1) => run[p].status # "requires_action"

\* C7 as amended: a call submits tool outputs at most once; when the run
\* requires action again after that submission, none of the newly requested
\* tool calls is executed and the call returns "Run status: requires_action".
C7_SingleRound ==
  \A p \in Procs :
    /\ Len(subs[p]) <= 1
    /\ run[p].submitted <= 1
    /\ (run[p].submitted = 1 /\ run[p].status = "requires_action")
         => (/\ pc[p] \in {"extract", "done"}
             /\ \A i \in 1..Len(run[p].tool_calls) :
                  \A k \in 1..Len(invoked[p]) : invoked[p][k] # run[p].tool_calls[i].id
             /\ (pc[p] = "done" => ret[p] = "Run status: requires_action"))

C7_Witness ==
  /\ pc["a"] = "done" /\ run["a"].submitted = 1
  /\ run["a"].status = "requires_action" /\ run["a"].tool_calls # << >>
  /\ ret["a"] = "Run status: requires_action"

\* C8 as stated: the text returned for a completed run is the text of an
\* assistant-authored message, never of a user-authored one.
C8_ReturnsAssistantMessage ==
  \A p \in Procs :
    (pc[p] = "done" /\ run[p].status = "completed" /\ retMsg[p] # NoMsg)
      => retMsg[p].role = "assistant"

\* C9 as stated: with two calls in parallel, the text each returns for its
\* completed run is the answer its own run produced (stated here for the
\* returns that are not a user's message, which C8 already rules out).
C9_OwnAnswerReturned ==
  \A p \in Procs :
    (pc[p] = "done" /\ run[p].status = "completed")
      => (retMsg[p].role # "user" => retMsg[p].req = req[p])

\* C10: two parallel callers create at most two threads and two rows; every
\* get_or_create_thread call that starts once two rows are stored creates
\* nothing and returns one and the same thread id, that of a row with the
\* greatest updated_at.
C10_RaceSettlesOnLatest ==
  /\ threads <= 2 /\ Len(rows) <= 2 /\ Len(rows) <= threads
  /\ \A i \in 1..Len(gocLog) :
       gocLog[i].seen = 2 =>
         /\ Len(rows) = 2 /\ threads = 2
         /\ \E k \in 1..2 :
              /\ rows[k].thread_id = gocLog[i].id
              /\ rows[k].updated_at = Max({rows[1].updated_at, rows[2].updated_at})
         /\ \A j \in 1..Len(gocLog) : gocLog[j].seen = 2 => gocLog[j].id = gocLog[i].id

C10_Witness ==
  /\ Len(rows) = 2 /\ rows[1].updated_at < rows[2].updated_at
  /\ Len(gocLog) = GocCalls
  /\ gocLog[GocCalls - 1].seen = 2 /\ gocLog[GocCalls].seen = 2
  /\ gocLog[GocCalls].id = rows[2].thread_id
  /\ pc["a"] = "done" /\ pc["b"] = "done"

\* the ids of a list of tool calls, and of a list of tool outputs
CallIds(calls) == { calls[i].id : i \in 1..Len(calls) }
OutputIds(outs) == { outs[i].tool_call_id : i \in 1..Len(outs) }
InvokedIds(p) == { invoked[p][k] : k \in 1..Len(invoked[p]) }

\* C11: tool outputs are submitted only after every tool call of the turn
\* was handed to run_function and has its output in the list: no submission
\* exists while the for loop still has a call ahead of it or after a call
\* raised, and no submission lacks the output of one of the turn's calls.
C11_SubmitAfterAllResults ==
  \A p \in Procs :
    /\ (pc[p] = "tools" /\ idx[p] <= Len(run[p].tool_calls)) => subs[p] = << >>
    /\ pc[p] = "raised" => subs[p] = << >>
    /\ \A k \in 1..Len(subs[p]) :
         /\ CallIds(subs[p][k].calls) \subseteq InvokedIds(p)
         /\ CallIds(subs[p][k].calls) \subseteq OutputIds(subs[p][k].outputs)

C11_Witness ==
  /\ Len(subs["a"]) = 1
  /\ Len(subs["a"][1].calls) = MaxCalls
  /\ InvokedIds("a") = 1..MaxCalls
  /\ OutputIds(subs["a"][1].outputs) = 1..MaxCalls

\* what a tool call that returns puts in its output: the JSON text of the
\* value run_function gives for its name and arguments
OutputOf(call) ==
  json_dumps(run_function(call.name, call.args, hasCreds, TRUE).value)

\* C12: every output of a submission, and of the list being built, carries
\* the id of the tool call whose name and arguments produced its text; the
\* ids of a submission are pairwise distinct and are, as a set, the ids of
\* the turn's tool calls.
C12_OutputsCarryOwnId ==
  \A p \in Procs :
    /\ \A i \in 1..Len(tool_outputs[p]) :
         /\ pc[p] = "tools" => i <= Len(run[p].tool_calls)
         /\ pc[p] = "tools" =>
              /\ tool_outputs[p][i].tool_call_id = run[p].tool_calls[i].id
              /\ tool_outputs[p][i].output = OutputOf(run[p].tool_calls[i])
    /\ \A k \in 1..Len(subs[p]) :
         LET calls == subs[p][k].calls
             outs  == subs[p][k].outputs
         IN  /\ \A i \in 1..Len(outs) :
                  /\ i <= Len(calls)
                  /\ outs[i].tool_call_id = calls[i].id
                  /\ outs[i].output = OutputOf(calls[i])
             /\ \A i, j \in 1..Len(outs) :
                  i # j => outs[i].tool_call_id # outs[j].tool_call_id
             /\ OutputIds(outs) = CallIds(calls)

C12_Witness ==
  /\ Len(subs["a"]) = 1
  /\ Len(subs["a"][1].calls) = MaxCalls
  /\ subs["a"][1].calls[1].name = "read_emails"
  /\ subs["a"][1].calls[MaxCalls].name = "get_weather"
  /\ subs["a"][1].outputs[1] = [tool_call_id |-> 1, output |-> "read_emails"]
  /\ subs["a"][1].outputs[MaxCalls] = [tool_call_id |-> MaxCalls, output |-> "null"]

\* a call that has returned after a run that ended in `status`
ReturnedAfter(p, status) ==
  pc[p] = "done" /\ run[p].status = status /\ ret[p] # "No tool outputs generated."

\* the messages the call of p listed
Listed(p) == IF thread_id[p] \in 1..Len(msgs) THEN msgs[thread_id[p]] ELSE << >>

\* the statuses of a run that ended without completing
FailedStatuses == {"failed", "expired", "cancelled", "incomplete"}

\* C13 as stated: what a call returns after a run that ended failed,
\* expired, cancelled or incomplete is told apart from every normal answer:
\* no call whose run completed returns the same value.
C13_FailureDistinctFromAnswer ==
  \A p, q \in Procs :
    (/\ \E s \in FailedStatuses : ReturnedAfter(p, s)
     /\ ReturnedAfter(q, "completed"))
      => ret[p] # ret[q]

\* C13 as amended: after a run that ended failed, expired, cancelled or
\* incomplete the call does not raise; it returns, the way it returns an
\* answer, the plain string "Run status: " followed by the status, taken
\* from no message.
C13_FailureIsStatusString ==
  \A p \in Procs :
    run[p].status \in FailedStatuses =>
      /\ pc[p] # "raised"
      /\ pc[p] = "done" =>
           /\ ret[p] = (CASE run[p].status = "failed"    -> "Run status: failed"
                          [] run[p].status = "expired"   -> "Run status: expired"
                          [] run[p].status = "cancelled" -> "Run status: cancelled"
                          [] OTHER                       -> "Run status: incomplete")
           /\ retMsg[p] = NoMsg
           /\ exc[p] = NoExc

\* a failed run and a completed one whose answer reads "Run status: failed"
\* have given their callers the same value
C13_Witness ==
  /\ ReturnedAfter("a", "failed") /\ ReturnedAfter("b", "completed")
  /\ ret["a"] = "Run status: failed" /\ ret["b"] = ret["a"]
  /\ retMsg["b"].role = "assistant"

\* C14 as stated: what a call returns for a completed run on an empty
\* message list is returned for no model answer: no call that completed on a
\* thread with messages returns the same value.
C14_EmptyThreadNeverAnAnswer ==
  \A p, q \in Procs :
    (/\ ReturnedAfter(p, "completed") /\ Listed(p) = << >>
     /\ ReturnedAfter(q, "completed") /\ Listed(q) # << >>)
      => ret[p] # ret[q]

\* C14 as amended: a completed run on an empty message list makes the call
\* return the plain string "No messages found in thread.", taken from no
\* message and different from "", so from what an empty answer returns.
C14_EmptyThreadSentinel ==
  \A p, q \in Procs :
    (ReturnedAfter(p, "completed") /\ Listed(p) = << >>) =>
      /\ ret[p] = "No messages found in thread."
      /\ ret[p] # ""
      /\ retMsg[p] = NoMsg
      /\ exc[p] = NoExc
      /\ (/\ ReturnedAfter(q, "completed") /\ Listed(q) # << >>
          /\ Listed(q)[Len(Listed(q))].text = "")
           => (ret[q] = "" /\ ret[q] # ret[p])

\* an empty thread and one whose answer is the sentinel's text have given
\* their callers the same value, next to an empty answer returned as ""
C14_Witness ==
  /\ ReturnedAfter("a", "completed") /\ Listed("a") = << >>
  /\ ReturnedAfter("b", "completed") /\ Len(Listed("b")) = MaxMsgs
  /\ Listed("b")[1].text = ""
  /\ retMsg["b"] = [role |-> "assistant", text |-> "No messages found in thread.",
                    req |-> 0]
  /\ ret["b"] = ret["a"]

FailedEnd(p) ==
  \/ pc[p] = "raised"
  \/ pc[p] = "done" /\ run[p].status \in FailedStatuses

\* a step of the turn of p after get_or_create_thread has returned
TurnStep(p) ==
  /\ pc[p] \in {"assistant", "append", "run", "polling", "tools", "poll", "extract"}
  /\ pc'[p] # pc[p] \/ idx'[p] # idx[p]

\* the messages the call in progress of p has put on its thread
OwnMessages(p) ==
  SelectSeq(msgs[thread_id[p]], LAMBDA m : m.req = req[p])

\* C16 as stated: no step of a turn after get_or_create_thread returned
\* changes the thread records or creates a thread; when the turn ends in
\* failure (tool exception, run ended without completing, among them the run
\* the provider expired while the call polled) the stored record is the one
\* the next get_or_create_thread call returns, the turn has put on the
\* thread its user message and nothing else, and it leaves no run on the
\* thread, so that the provider accepts the retry's message.
C16_FailedTurnKeepsThread ==
  [][ \A p \in Procs :
        TurnStep(p) =>
          /\ rows' = rows
          /\ threads' = threads
          /\ FailedEnd(p)' =>
               /\ msgs' = msgs
               /\ rows' # << >> => LatestThread(rows', tieFirst) = thread_id[p]
               /\ exc'[p].exc # "BadRequest" =>
                    /\ OwnMessages(p)' =
                         << [role |-> "user", text |-> "hi", req |-> req[p]] >>
                    /\ thread_id[p] \notin active' ]_vars

\* the tool calls of the first round of the call of p
FirstRound(p) == IF subs[p] # << >> THEN subs[p][1].calls ELSE run[p].tool_calls

\* C17: with no google_tokens row, run_function on any catalog tool whose
\* subscripted arguments are present raises the no-stored-credentials
\* exception out of the executor before any Google API call; in a turn, the
\* first such tool call ends process_agent_message with that exception, and
\* no output of a Google API call is ever produced or submitted.
C17_NoCredentialsPropagates ==
  ~hasCreds =>
    /\ \A name \in CatalogNames : \A apiOk \in BOOLEAN :
       \A args \in {SchemaRequired(name), ArgKeys} :
         run_function(name, args, hasCreds, apiOk)
           = Raised("NoStoredCredentials", TRUE, FALSE)
    /\ \A p \in Procs :
         /\ exc[p].exc # "ApiError"
         /\ \A i \in 1..Len(tool_outputs[p]) : tool_outputs[p][i].output = "null"
         /\ \A k \in 1..Len(subs[p]) : \A i \in 1..Len(subs[p][k].outputs) :
              subs[p][k].outputs[i].output = "null"
         /\ \A i \in 1..Len(FirstRound(p)) :
              LET call == FirstRound(p)[i]
              IN  (/\ call.id \in InvokedIds(p)
                   /\ call.name \in CatalogNames
                   /\ SchemaRequired(call.name) \subseteq call.args)
                    => (/\ pc[p] = "raised"
                        /\ exc[p] = [exc |-> "NoStoredCredentials", at |-> call.id]
                        /\ subs[p] = << >>)

C17_Witness ==
  /\ ~hasCreds /\ pc["a"] = "raised"
  /\ Len(run["a"].tool_calls) = MaxCalls
  /\ run["a"].tool_calls[MaxCalls].name = "send_email"
  /\ exc["a"] = [exc |-> "NoStoredCredentials", at |-> MaxCalls]
  /\ Len(invoked["a"]) = MaxCalls
  /\ tool_outputs["a"][1].output = "null"
  /\ subs["a"] = << >>

\* the call of p is over: it returned or an exception left it
Ended(p) == pc[p] \in {"done", "raised"}

\* C18 as stated: every call of process_agent_message ends, also when the
\* provider never reports the run as over or as requiring action.
C18_EveryCallEnds ==
  \A p \in Procs : (pc[p] \in {"run", "polling", "poll"}) ~> Ended(p)

\* the decision the router acted on, when the provider sent one
Decided(a) ==
  /\ router.pc = "done" /\ router.decisions # << >>
  /\ router.decisions[1].approach = a

\* C19: a generated_query decision whose query fails ends with a final
\* answer, nothing raised, and the request for that answer carried the
\* failure text as its tool output; a retrieval decision ends with a final
\* answer whose request carried the retrieval's matches as its tool output.
C19_StrategyOutputFedBack ==
  /\ ~router.raised
  /\ (/\ Decided("generated_query")
      /\ ~ExecuteQuery(router.decisions[1].query_text, router.found).ok)
       => /\ router.result.kind = "answer"
          /\ router.final_request =
               << [role |-> "tool",
                   content |-> [kind |-> "error", content |-> << >>,
                                error |-> ExecuteQuery(router.decisions[1].query_text,
                                                       router.found).error]] >>
          /\ router.final_request[1].content.error \in
               {"syntax error", "disallowed statement"}
  /\ Decided("retrieval")
       => /\ router.result.kind = "answer"
          /\ router.final_request =
               << [role |-> "tool",
                   content |-> [kind |-> "matches", content |-> router.matches,
                                error |-> ""]] >>

C19_Witness ==
  /\ Decided("generated_query")
  /\ router.decisions[1].query_text = "SELEC name FROM items"
  /\ router.final_request[1].content.error = "syntax error"
  /\ router.result = [kind |-> "answer", answer |-> "the query failed"]

\* C20: with no decision call the router ends with "no decision produced",
\* with an approach that is neither retrieval nor generated_query it ends
\* with "unrecognized approach"; either way no strategy was executed, no
\* approach was assumed and no final answer was requested.
C20_NoGuessedApproach ==
  router.pc = "done" =>
    /\ router.decisions = << >> =>
         /\ router.result = [kind |-> "no decision produced", answer |-> ""]
         /\ router.approach = ""
         /\ router.strategy = "none" /\ router.tool_output = NoToolOutput
         /\ router.final_request = << >>
    /\ (/\ router.decisions # << >>
        /\ router.decisions[1].approach \notin {"retrieval", "generated_query"})
         => /\ router.result = [kind |-> "unrecognized approach", answer |-> ""]
            /\ router.strategy = "none" /\ router.tool_output = NoToolOutput
            /\ router.final_request = << >>

C20_WitnessNone ==
  /\ router.pc = "done" /\ router.decisions = << >>
  /\ router.matches # << >>
  /\ router.result.kind = "no decision produced"

C20_Witness ==
  \/ C20_WitnessNone
  \/ /\ Decided("full_scan")
     /\ router.result.kind = "unrecognized approach"

\* C21: within one call of process_agent_message no tool call is handed to
\* run_function twice: the ids handed over are pairwise distinct, they are
\* the first tool calls of the first round in their order, and nothing is
\* handed over once a call has raised or the outputs were submitted, nor
\* when the provider refused the message or the run.
C21_EachCallRunOnce ==
  \A p \in Procs :
    /\ \A i, j \in 1..Len(invoked[p]) : i # j => invoked[p][i] # invoked[p][j]
    /\ Len(invoked[p]) <= Len(FirstRound(p))
    /\ \A i \in 1..Len(invoked[p]) : invoked[p][i] = FirstRound(p)[i].id
    /\ pc[p] = "tools" => Len(invoked[p]) = idx[p] - 1
    /\ pc[p] = "raised" =>
         IF exc[p].exc = "BadRequest" THEN invoked[p] = << >>
         ELSE invoked[p] # << >> /\ invoked[p][Len(invoked[p])] = exc[p].at
    /\ subs[p] # << >> => Len(invoked[p]) = Len(subs[p][1].calls)

C21_Witness ==
  /\ pc["a"] = "done" /\ Len(subs["a"]) = 1
  /\ invoked["a"] = [i \in 1..MaxCalls |-> i]
  /\ run["a"].status = "requires_action" /\ run["a"].tool_calls # << >>
  /\ subs["a"][1].calls[1].name = "send_email"

\* a step in which the SELECT of get_or_create_thread of p is answered
SelectStep(p) == pc[p] = "select" /\ pc'[p] # "select"

\* C22: every change of agent_threads appends one row or removes them all,
\* and no thread id leaves the provider's count; a get_or_create_thread
\* call whose SELECT finds a row returns that row's thread and changes
\* neither the rows (ids and timestamps) nor the store's clock, and creates
\* no thread.
C22_StoreInsertOrDeleteOnly ==
  [][ /\ rows' # rows =>
           \/ rows' = << >>
           \/ Len(rows') = Len(rows) + 1 /\ SubSeq(rows', 1, Len(rows)) = rows
      /\ \A p \in Procs :
           (SelectStep(p) /\ rows # << >>) =>
             /\ rows' = rows /\ clock' = clock
             /\ threads' = threads /\ msgs' = msgs
             /\ pc'[p] = "assistant"
             /\ \E i \in 1..Len(rows) : rows[i].thread_id = thread_id'[p] ]_vars

C22_Witness ==
  /\ pc["a"] = "assistant" /\ req["a"] = MaxReq /\ seenRows["a"] = 1
  /\ Len(rows) = 1 /\ rows[1].thread_id = thread_id["a"]
  /\ threads = 1 /\ deletes = 0

\* C23: the names of `functions` are five and pairwise distinct; run_function
\* sends each of them, given its arguments, to the executor of that name and
\* to no other, and sends no other name to any executor; the assistant a call
\* creates is given exactly these five tools in catalog order.
C23_CatalogMatchesDispatch ==
  /\ Len(functions) = 5
  /\ \A i, j \in 1..Len(functions) : i # j => functions[i].name # functions[j].name
  /\ \A name \in CatalogNames : \A args \in {SchemaRequired(name), ArgKeys} :
       run_function(name, args, TRUE, TRUE) = Returned(name, TRUE, TRUE)
  /\ \A name \in UnknownNames : ~run_function(name, ArgKeys, TRUE, TRUE).called
  /\ \A p \in Procs :
       /\ assistant[p] # << >> =>
            /\ Len(assistant[p]) = Len(functions)
            /\ \A i \in 1..Len(functions) : assistant[p][i] = functions[i].name
       /\ pc[p] \in {"append", "run", "polling", "tools", "poll", "extract"}
            => assistant[p] # << >>

C23_Witness ==
  /\ pc["a"] = "done" /\ hasCreds
  /\ assistant["a"] = << "schedule_meeting", "send_email", "read_emails",
                         "read_calendar", "edit_calendar" >>
  /\ Len(subs["a"]) = 1
  /\ subs["a"][1].calls[1].name = "read_emails"
  /\ subs["a"][1].outputs[1].output = "read_emails"

\* the strings process_agent_message returns on its own account
OwnReturns ==
  {"No tool outputs generated.", "No messages found in thread.",
   "Run status: requires_action", "Run status: failed", "Run status: expired",
   "Run status: cancelled", "Run status: incomplete"}

\* C24: with a provider whose polls return, a call of process_agent_message
\* that has created its run ends; it submits tool outputs at most once, is
\* past the tool calls for good once it has submitted, and, unless a tool
\* call raised or the provider refused the run, ends by returning a string:
\* the last message's text or one of its own.
C24_OneRoundThenEnds ==
  \A p \in Procs :
    /\ [](/\ Len(subs[p]) <= 1
          /\ subs[p] # << >> => pc[p] \in {"poll", "extract", "done"}
          /\ pc[p] = "done" => (ret[p] \in OwnReturns \/ ret[p] = retMsg[p].text)
          /\ pc[p] = "done" => exc[p] = NoExc)
    /\ (pc[p] = "run") ~> Ended(p)
    /\ (pc[p] = "extract") ~> (pc[p] = "done")

C24_Witness ==
  /\ pc["a"] = "done" /\ req["a"] = ConcReq /\ Len(subs["a"]) = 1
  /\ run["a"].status = "requires_action" /\ Len(run["a"].tool_calls) = MoreCalls
  /\ ret["a"] = "Run status: requires_action"

\* the first poll of p came back requiring action with no tool call
EmptyAction(p) ==
  /\ run[p].status = "requires_action" /\ run[p].tool_calls = << >>
  /\ run[p].submitted = 0

\* C25: a run that requires action with no tool call makes the call return
\* "No tool outputs generated.": nothing is handed to run_function, nothing
\* is submitted (no submission ever carries an empty list), no message of
\* the thread is read or added, and the run is left requiring action.
C25_EmptyActionReturnsNotice ==
  \A p \in Procs :
    /\ \A k \in 1..Len(subs[p]) : subs[p][k].outputs # << >>
    /\ run[p].submitted = (IF pc[p] = "poll" THEN 0 ELSE Len(subs[p]))
    /\ EmptyAction(p) =>
         /\ pc[p] \in {"tools", "done"}
         /\ subs[p] = << >> /\ invoked[p] = << >> /\ tool_outputs[p] = << >>
         /\ retMsg[p] = NoMsg /\ exc[p] = NoExc
         /\ OwnMessages(p) = << [role |-> "user", text |-> "hi", req |-> req[p]] >>
         /\ pc[p] = "tools" => thread_id[p] \in active
         /\ pc[p] = "done" => ret[p] = "No tool outputs generated."

C25_Witness ==
  /\ EmptyAction("a") /\ pc["a"] = "done"
  /\ ret["a"] = "No tool outputs generated."
  /\ subs["a"] = << >> /\ req["a"] = MaxReq
====
